---- MODULE Spec2Model ----
(***************************************************************************)
(* Model of the analysis backend: the request handlers of                  *)
(* src/src/routes/analysis.ts (POST /api/analyze, POST /api/analyze/stream)*)
(* and the job runner of src/dist/services/pythonService.js (runAnalysis). *)
(*                                                                         *)
(* JavaScript strings are sequences of one-character strings, so that      *)
(* indexOf, substring, trim, split, toLowerCase and the regular            *)
(* expressions of the source are computed character by character.          *)
(***************************************************************************)
EXTENDS Integers, Sequences, FiniteSets, TLC

(***************************************************************************)
(* String primitives (ECMAScript String.prototype)                         *)
(***************************************************************************)

UpperCase ==
  <<"A","B","C","D","E","F","G","H","I","J","K","L","M",
    "N","O","P","Q","R","S","T","U","V","W","X","Y","Z">>

LowerCase ==
  <<"a","b","c","d","e","f","g","h","i","j","k","l","m",
    "n","o","p","q","r","s","t","u","v","w","x","y","z">>

Digits == {"0","1","2","3","4","5","6","7","8","9"}

\* \s of the regular expressions and the set String.prototype.trim strips
WhiteSpace == {" ", "\n", "\t", "\r"}

Range(f) == {f[i] : i \in DOMAIN f}

LowerChar(c) ==
  IF \E i \in DOMAIN UpperCase : UpperCase[i] = c
  THEN LowerCase[CHOOSE i \in DOMAIN UpperCase : UpperCase[i] = c]
  ELSE c

UpperChar(c) ==
  IF \E i \in DOMAIN LowerCase : LowerCase[i] = c
  THEN UpperCase[CHOOSE i \in DOMAIN LowerCase : LowerCase[i] = c]
  ELSE c

toLowerCase(s) == [i \in DOMAIN s |-> LowerChar(s[i])]

toUpperCase(s) == [i \in DOMAIN s |-> UpperChar(s[i])]

\* pat occurs in s at the 1-based position p
MatchAt(s, pat, p) ==
  /\ p >= 1
  /\ p + Len(pat) - 1 <= Len(s)
  /\ \A k \in 1..Len(pat) : s[p + k - 1] = pat[k]

\* the 1-based positions p >= from at which pat occurs in s
Occurrences(s, pat, from) ==
  {p \in from..(Len(s) - Len(pat) + 1) : MatchAt(s, pat, p)}

Min(S) == CHOOSE x \in S : \A y \in S : x <= y

Max(S) == CHOOSE x \in S : \A y \in S : x >= y

\* s.indexOf(pat): 0-based index of the first occurrence, -1 when there is none
indexOf(s, pat) ==
  IF Occurrences(s, pat, 1) = {} THEN -1 ELSE Min(Occurrences(s, pat, 1)) - 1

includes(s, pat) == indexOf(s, pat) # -1

Clamp(n, len) == IF n < 0 THEN 0 ELSE IF n > len THEN len ELSE n

\* s.substring(a, b): 0-based, end exclusive, arguments clamped and swapped
substring(s, a, b) ==
  LET ca == Clamp(a, Len(s))
      cb == Clamp(b, Len(s))
      lo == IF ca <= cb THEN ca ELSE cb
      hi == IF ca <= cb THEN cb ELSE ca
  IN  SubSeq(s, lo + 1, hi)

trim(s) ==
  LET keep == {i \in DOMAIN s : s[i] \notin WhiteSpace}
  IN  IF keep = {} THEN <<>> ELSE SubSeq(s, Min(keep), Max(keep))

RECURSIVE SplitFrom(_, _, _)
SplitFrom(s, sep, from) ==
  LET hits == {p \in from..Len(s) : s[p] = sep}
  IN  IF hits = {} THEN <<SubSeq(s, from, Len(s))>>
      ELSE <<SubSeq(s, from, Min(hits) - 1)>> \o SplitFrom(s, sep, Min(hits) + 1)

\* s.split(sep) for a one-character separator
split(s, sep) == SplitFrom(s, sep, 1)

\* array.filter(line => line.trim())
FilterNonBlank(lines) == SelectSeq(lines, LAMBDA l : trim(l) # <<>>)

(***************************************************************************)
(* JavaScript values.  A value is a record of one shape: its type tag t,   *)
(* its text (strings), its properties obj (objects: property name ->       *)
(* value), its number num and its elements list (arrays).  A number is     *)
(* the exact decimal n / 10^k, or NaN.                                     *)
(***************************************************************************)

NoNum == [n |-> 0, k |-> 0, nan |-> FALSE]

NaN == [n |-> 0, k |-> 0, nan |-> TRUE]

RECURSIVE Norm(_, _)
Norm(n, k) ==
  IF n = 0 THEN [n |-> 0, k |-> 0, nan |-> FALSE]
  ELSE IF k > 0 /\ n % 10 = 0 THEN Norm(n \div 10, k - 1)
  ELSE [n |-> n, k |-> k, nan |-> FALSE]

Undefined == [t |-> "undefined", text |-> <<>>, obj |-> <<>>, num |-> NoNum, list |-> <<>>]

Null == [t |-> "null", text |-> <<>>, obj |-> <<>>, num |-> NoNum, list |-> <<>>]

Bool(b) == [t |-> "boolean", text |-> IF b THEN <<"t">> ELSE <<>>, obj |-> <<>>, num |-> NoNum, list |-> <<>>]

Str(s) == [t |-> "string", text |-> s, obj |-> <<>>, num |-> NoNum, list |-> <<>>]

Number(x) == [t |-> "number", text |-> <<>>, obj |-> <<>>, num |-> x, list |-> <<>>]

Object(o) == [t |-> "object", text |-> <<>>, obj |-> o, num |-> NoNum, list |-> <<>>]

Array(l) == [t |-> "array", text |-> <<>>, obj |-> <<>>, num |-> NoNum, list |-> l]

\* the object {} : no property
EmptyObject == <<>>

\* o.k = v
SetProp(o, k, v) == (k :> v) @@ o

HasProp(o, k) == k \in DOMAIN o

\* ToBoolean: undefined, null, "", 0, NaN and false are falsy
Truthy(v) ==
  CASE v.t = "undefined" -> FALSE
    [] v.t = "null" -> FALSE
    [] v.t = "boolean" -> v.text # <<>>
    [] v.t = "string" -> v.text # <<>>
    [] v.t = "number" -> ~v.num.nan /\ v.num.n # 0
    [] OTHER -> TRUE

(***************************************************************************)
(* Numbers from text                                                       *)
(***************************************************************************)

DigitSeq == <<"0","1","2","3","4","5","6","7","8","9">>

DigitVal(c) == (CHOOSE i \in DOMAIN DigitSeq : DigitSeq[i] = c) - 1

RECURSIVE DigitsToInt(_)
DigitsToInt(ds) ==
  IF ds = <<>> THEN 0
  ELSE DigitsToInt(SubSeq(ds, 1, Len(ds) - 1)) * 10 + DigitVal(ds[Len(ds)])

\* the first position j >= i of s whose character is not in S (Len(s)+1 if none)
RunEnd(s, i, S) ==
  LET stops == {j \in i..Len(s) : s[j] \notin S}
  IN  IF stops = {} THEN Len(s) + 1 ELSE Min(stops)

\* the decimal sign int . frac
Decimal(neg, int, frac) ==
  LET m == DigitsToInt(int \o frac)
  IN  Norm(IF neg THEN 0 - m ELSE m, Len(frac))

\* parseFloat(s): the longest prefix [ws] [+-] digits [. digits] holding a digit
parseFloat(s) ==
  LET a == RunEnd(s, 1, WhiteSpace)
      signed == a <= Len(s) /\ s[a] \in {"+", "-"}
      b == IF signed THEN a + 1 ELSE a
      c == RunEnd(s, b, Digits)
      dot == c <= Len(s) /\ s[c] = "."
      d == IF dot THEN RunEnd(s, c + 1, Digits) ELSE c
      int == SubSeq(s, b, c - 1)
      frac == IF dot THEN SubSeq(s, c + 1, d - 1) ELSE <<>>
  IN  IF int = <<>> /\ frac = <<>> THEN NaN
      ELSE Decimal(signed /\ s[a] = "-", int, frac)

\* x / 100
Div100(x) == IF x.nan THEN NaN ELSE Norm(x.n, x.k + 2)

\* x || 0 for a number x
OrZero(x) == IF x.nan \/ x.n = 0 THEN NoNum ELSE x

(***************************************************************************)
(* JSON.parse, for the JSON texts made of objects, strings without         *)
(* escapes, numbers without exponent, and the literals null, true, false.  *)
(***************************************************************************)

ParseFail == [ok |-> FALSE, next |-> 0, val |-> Undefined]

ParseOk(v, next) == [ok |-> TRUE, next |-> next, val |-> v]

\* a string token "..." starting at position i
ParseString(s, i) ==
  IF i > Len(s) \/ s[i] # "\"" THEN ParseFail
  ELSE LET closing == {j \in (i + 1)..Len(s) : s[j] = "\""}
       IN  IF closing = {} THEN ParseFail
           ELSE LET j == Min(closing)
                    body == SubSeq(s, i + 1, j - 1)
                IN  IF \E c \in Range(body) : c \in {"\n", "\t", "\r", "\\"}
                    THEN ParseFail
                    ELSE ParseOk(Str(body), j + 1)

\* a number token -? (0 | [1-9][0-9]*) (. [0-9]+)? starting at position i
ParseNumber(s, i) ==
  LET neg == i <= Len(s) /\ s[i] = "-"
      b == IF neg THEN i + 1 ELSE i
      c == RunEnd(s, b, Digits)
      int == SubSeq(s, b, c - 1)
      dot == c <= Len(s) /\ s[c] = "."
      d == IF dot THEN RunEnd(s, c + 1, Digits) ELSE c
      frac == IF dot THEN SubSeq(s, c + 1, d - 1) ELSE <<>>
  IN  IF int = <<>> \/ (Len(int) > 1 /\ int[1] = "0") \/ (dot /\ frac = <<>>)
      THEN ParseFail
      ELSE ParseOk(Number(Decimal(neg, int, frac)), d)

ParseLiteral(s, i) ==
  IF MatchAt(s, <<"n","u","l","l">>, i) THEN ParseOk(Null, i + 4)
  ELSE IF MatchAt(s, <<"t","r","u","e">>, i) THEN ParseOk(Bool(TRUE), i + 4)
  ELSE IF MatchAt(s, <<"f","a","l","s","e">>, i) THEN ParseOk(Bool(FALSE), i + 5)
  ELSE ParseFail

RECURSIVE ParseValue(_, _), ParseMembers(_, _, _)

\* the members "key" : value , ... } of an object, the first key at position i
ParseMembers(s, i, acc) ==
  LET key == ParseString(s, i)
      colon == RunEnd(s, key.next, WhiteSpace)
  IN  IF ~key.ok \/ colon > Len(s) \/ s[colon] # ":" THEN ParseFail
      ELSE LET v == ParseValue(s, RunEnd(s, colon + 1, WhiteSpace))
               after == RunEnd(s, v.next, WhiteSpace)
               obj == SetProp(acc, key.val.text, v.val)
           IN  IF ~v.ok \/ after > Len(s) THEN ParseFail
               ELSE IF s[after] = "}" THEN ParseOk(Object(obj), after + 1)
               ELSE IF s[after] = "," THEN ParseMembers(s, RunEnd(s, after + 1, WhiteSpace), obj)
               ELSE ParseFail

\* a JSON value starting at position i
ParseValue(s, i) ==
  IF i > Len(s) THEN ParseFail
  ELSE IF s[i] = "{"
  THEN LET j == RunEnd(s, i + 1, WhiteSpace)
       IN  IF j <= Len(s) /\ s[j] = "}" THEN ParseOk(Object(EmptyObject), j + 1)
           ELSE ParseMembers(s, j, EmptyObject)
  ELSE IF s[i] = "\"" THEN ParseString(s, i)
  ELSE IF s[i] \in Digits \cup {"-"} THEN ParseNumber(s, i)
  ELSE ParseLiteral(s, i)

\* JSON.parse(text): ok is FALSE where JSON.parse throws a SyntaxError
JSONparse(text) ==
  LET v == ParseValue(text, RunEnd(text, 1, WhiteSpace))
  IN  IF v.ok /\ RunEnd(text, v.next, WhiteSpace) = Len(text) + 1 THEN v ELSE ParseFail

(***************************************************************************)
(* Paths (node:path on a POSIX host): a path is its sequence of directory  *)
(* names from the root.                                                    *)
(***************************************************************************)

RECURSIVE Normalize(_, _)
\* the segments segs applied to the absolute path base: "" and "." are
\* dropped, ".." goes up (and stays at the root)
Normalize(base, segs) ==
  IF segs = <<>> THEN base
  ELSE LET h == Head(segs)
           b == IF h = <<>> \/ h = <<".">> THEN base
                ELSE IF h = <<".", ".">>
                THEN (IF base = <<>> THEN base ELSE SubSeq(base, 1, Len(base) - 1))
                ELSE Append(base, h)
       IN  Normalize(b, Tail(segs))

\* path.resolve(base, rel) and path.join(base, rel) for an absolute base
pathJoin(base, rel) == Normalize(base, split(rel, "/"))

\* __dirname of the built service: <analyst root>/MultiAgent Financial analyst/dist/services
Dirname ==
  << <<"s","r","v">>, <<"a","n","a","l","y","s","t">>,
     <<"M","u","l","t","i","A","g","e","n","t"," ","F","i","n","a","n","c","i","a","l"," ","a","n","a","l","y","s","t">>,
     <<"d","i","s","t">>, <<"s","e","r","v","i","c","e","s">> >>

\* runAnalysis: path.resolve(__dirname, '../..'), the cwd of the subprocess
projectRoot == pathJoin(Dirname, <<".", ".", "/", ".", ".">>)

\* runAnalysis: path.resolve(projectRoot, 'main.py')
pythonScript == pathJoin(projectRoot, <<"m","a","i","n",".","p","y">>)

\* extractMemoPath: path.resolve(__dirname, '../../../..')
memoRoot ==
  pathJoin(Dirname, <<".", ".", "/", ".", ".", "/", ".", ".", "/", ".", ".">>)

(***************************************************************************)
(* The regular expressions of pythonService.js                             *)
(***************************************************************************)

NoMatch == [found |-> FALSE, g1 |-> <<>>, g2 |-> <<>>, all |-> <<>>]

Match(all, g1, g2) == [found |-> TRUE, g1 |-> g1, g2 |-> g2, all |-> all]

\* the first of the candidate start positions (in increasing order) at which
\* the attempt At(p) matches
FirstMatch(starts, At(_)) ==
  LET good == {p \in starts : At(p).found}
  IN  IF good = {} THEN NoMatch ELSE At(Min(good))

\* line.match(/\[([^\]]+)\]/)
StepMatch(line) ==
  LET At(p) ==
        LET q == RunEnd(line, p + 1, Range(line) \ {"]"})
        IN  IF q <= Len(line) /\ q > p + 1
            THEN Match(SubSeq(line, p, q), SubSeq(line, p + 1, q - 1), <<>>)
            ELSE NoMatch
  IN  FirstMatch(Occurrences(line, <<"[">>, 1), At)

\* a lazy match, /\{[\s\S]*?\}/: from the first { to the first } after it
BraceMatchLazy(s) ==
  LET opens == Occurrences(s, <<"{">>, 1)
      closes == {p \in Occurrences(s, <<"}">>, 1) : opens # {} /\ p > Min(opens)}
  IN  IF opens = {} \/ closes = {} THEN NoMatch
      ELSE Match(SubSeq(s, Min(opens), Min(closes)), <<>>, <<>>)

\* stdout.match(/\{[\s\S]*\}/): from the first { to the last } after it
BraceMatch(s) ==
  LET opens == Occurrences(s, <<"{">>, 1)
      closes == Occurrences(s, <<"}">>, 1)
  IN  IF opens = {} \/ closes = {} \/ Max(closes) < Min(opens) THEN NoMatch
      ELSE Match(SubSeq(s, Min(opens), Max(closes)), <<>>, <<>>)

\* text.match(/<label>\s*(<class>+)/i) for a literal, lower-case label
LabelledRun(text, label, class) ==
  LET At(p) ==
        LET w == RunEnd(text, p + Len(label), WhiteSpace)
            e == RunEnd(text, w, class)
        IN  IF e > w THEN Match(SubSeq(text, p, e - 1), SubSeq(text, w, e - 1), <<>>)
            ELSE NoMatch
  IN  FirstMatch(Occurrences(toLowerCase(text), label, 1), At)

\* \w
WordChars == Range(UpperCase) \cup Range(LowerCase) \cup Digits \cup {"_"}

\* output.match(/Recommendation:\s*(\w+)/i)
RecommendationMatch(output) ==
  LabelledRun(output, <<"r","e","c","o","m","m","e","n","d","a","t","i","o","n",":">>, WordChars)

\* output.match(/Confidence Score:\s*([\d.]+)/i)
ConfidenceMatch(output) ==
  LabelledRun(output, <<"c","o","n","f","i","d","e","n","c","e"," ","s","c","o","r","e",":">>, Digits \cup {"."})

\* output.match(/Scenarios:([\s\S]*?)(?=\nInvestment memo|$)/i)
ScenariosMatch(output) ==
  LET low == toLowerCase(output)
      At(p) ==
        LET b == p + 10
            stops == Occurrences(low, <<"\n","i","n","v","e","s","t","m","e","n","t"," ","m","e","m","o">>, b)
            e == IF stops = {} THEN Len(output) + 1 ELSE Min(stops)
        IN  Match(SubSeq(output, p, e - 1), SubSeq(output, b, e - 1), <<>>)
  IN  FirstMatch(Occurrences(low, <<"s","c","e","n","a","r","i","o","s",":">>, 1), At)

\* text.match(new RegExp(`${scenario}[^:]*:\\s*([+-]?[\\d.]+)%[^,]*,\\s*(\\d+)%`, 'i'))
ScenarioMatch(text, scenario) ==
  LET At(p) ==
        LET colon == RunEnd(text, p + Len(scenario), Range(text) \ {":"})
            w == RunEnd(text, colon + 1, WhiteSpace)
            signed == w <= Len(text) /\ text[w] \in {"+", "-"}
            d == IF signed THEN w + 1 ELSE w
            e == RunEnd(text, d, Digits \cup {"."})
            comma == RunEnd(text, e + 1, Range(text) \ {","})
            w2 == RunEnd(text, comma + 1, WhiteSpace)
            e2 == RunEnd(text, w2, Digits)
        IN  IF /\ colon <= Len(text)
               /\ e > d
               /\ e <= Len(text) /\ text[e] = "%"
               /\ comma <= Len(text)
               /\ e2 > w2
               /\ e2 <= Len(text) /\ text[e2] = "%"
            THEN Match(SubSeq(text, p, e2), SubSeq(text, w, e - 1), SubSeq(text, w2, e2 - 1))
            ELSE NoMatch
  IN  FirstMatch(Occurrences(toLowerCase(text), scenario, 1), At)

\* output.match(/Investment memo saved to:\s*(outputs[\/\\][^\s\n]+)/i)
MemoMatch(output) ==
  LET low == toLowerCase(output)
      At(p) ==
        LET w == RunEnd(output, p + 25, WhiteSpace)
            e == RunEnd(output, w + 8, Range(output) \ WhiteSpace)
        IN  IF /\ MatchAt(low, <<"o","u","t","p","u","t","s">>, w)
               /\ w + 7 <= Len(output) /\ output[w + 7] \in {"/", "\\"}
               /\ e > w + 8
            THEN Match(SubSeq(output, p, e - 1), SubSeq(output, w, e - 1), <<>>)
            ELSE NoMatch
  IN  FirstMatch(Occurrences(low, <<"i","n","v","e","s","t","m","e","n","t"," ","m","e","m","o"," ","s","a","v","e","d"," ","t","o",":">>, 1), At)

(***************************************************************************)
(* pythonService.js: parseTextOutput, extractValue, extractMemoPath        *)
(***************************************************************************)

K_recommendation == <<"r","e","c","o","m","m","e","n","d","a","t","i","o","n">>

K_confidence_score == <<"c","o","n","f","i","d","e","n","c","e","_","s","c","o","r","e">>

K_scenarios == <<"s","c","e","n","a","r","i","o","s">>

K_memo == <<"m","e","m","o">>

K_progressMessages == <<"p","r","o","g","r","e","s","s","M","e","s","s","a","g","e","s">>

K_parseError == <<"p","a","r","s","e","E","r","r","o","r">>

K_return == <<"r","e","t","u","r","n">>

K_prob == <<"p","r","o","b">>

\* extractValue(text, regex): match[1].trim(), or null (falsy) without a match
extractValue(m) == IF m.found THEN Str(trim(m.g1)) ELSE Null

\* the loop over ['bull', 'base', 'bear'] of parseTextOutput
ScenarioNames == << <<"b","u","l","l">>, <<"b","a","s","e">>, <<"b","e","a","r">> >>

RECURSIVE ScenariosFrom(_, _, _)
ScenariosFrom(scenariosText, i, acc) ==
  IF i > Len(ScenarioNames) THEN acc
  ELSE LET m == ScenarioMatch(scenariosText, ScenarioNames[i])
           entry == Object(SetProp(SetProp(EmptyObject,
                                   K_return, Number(Div100(parseFloat(m.g1)))),
                                   K_prob, Number(Div100(parseFloat(m.g2)))))
       IN  ScenariosFrom(scenariosText, i + 1,
                         IF m.found THEN SetProp(acc, ScenarioNames[i], entry) ELSE acc)

parseTextOutput(output) ==
  LET rec == extractValue(RecommendationMatch(output))
      conf == extractValue(ConfidenceMatch(output))
      sm == ScenariosMatch(output)
      scenarios == IF sm.found THEN ScenariosFrom(sm.g1, 1, EmptyObject) ELSE EmptyObject
  IN  SetProp(SetProp(SetProp(SetProp(SetProp(EmptyObject,
        K_recommendation, IF Truthy(rec) THEN rec ELSE Str(<<>>)),
        K_confidence_score,
          Number(OrZero(parseFloat(IF Truthy(conf) THEN conf.text ELSE <<"0">>)))),
        K_scenarios, Object(scenarios)),
        K_memo, Str(<<>>)),
        K_progressMessages, Array(<<>>))

\* extractMemoPath(output): the path of the memo file, or null
extractMemoPath(output) ==
  LET memoMatch == MemoMatch(output)
  IN  IF memoMatch.found
      THEN [found |-> TRUE, path |-> pathJoin(memoRoot, memoMatch.g1)]
      ELSE [found |-> FALSE, path |-> <<>>]

(***************************************************************************)
(* pythonService.js: the 'close' handler of runAnalysis.  A ProgressData   *)
(* is [step, message] (its timestamp, Date.now(), is left out).  A         *)
(* settlement is [state, value, error, via]: state "fulfilled" with the    *)
(* result object value, or "rejected" with error [message, code]; via      *)
(* names the branch of the handler that produced it.                       *)
(***************************************************************************)

JSON_OUTPUT_START == <<"=","=","=","J","S","O","N","_","O","U","T","P","U","T","_","S","T","A","R","T","=","=","=">>

JSON_OUTPUT_END == <<"=","=","=","J","S","O","N","_","O","U","T","P","U","T","_","E","N","D","=","=","=">>

\* the offset the handler adds to the index of the start marker
StartSkip == 24

\* the message of the SyntaxError JSON.parse throws (its wording is the engine's)
SyntaxErrorMessage == <<"U","n","e","x","p","e","c","t","e","d"," ","t","o","k","e","n">>

\* the message of the TypeError of a property assignment on null or on a
\* primitive (the module is an ES module, so strict)
TypeErrorMessage == <<"C","a","n","n","o","t"," ","s","e","t"," ","p","r","o","p","e","r","t","i","e","s">>

TimeoutMessage == <<"A","n","a","l","y","s","i","s"," ","t","i","m","e","o","u","t",":"," ","P","r","o","c","e","s","s"," ","t","o","o","k"," ","l","o","n","g","e","r"," ","t","h","a","n"," ","6","0"," ","m","i","n","u","t","e","s">>

NoError == [message |-> <<>>, code |-> Undefined]

Pending == [state |-> "pending", value |-> EmptyObject, error |-> NoError, via |-> "none"]

Fulfilled(result, via) ==
  [state |-> "fulfilled", value |-> result, error |-> NoError, via |-> via]

Rejected(message, code, via) ==
  [state |-> "rejected", value |-> EmptyObject,
   error |-> [message |-> message, code |-> code], via |-> via]

RECURSIVE NatToText(_)
NatToText(n) ==
  IF n < 10 THEN <<DigitSeq[n + 1]>>
  ELSE NatToText(n \div 10) \o <<DigitSeq[(n % 10) + 1]>>

\* `${code}` for an exit code: a number, or null when a signal ended the process
CodeToText(code) ==
  IF code.t = "null" THEN <<"n","u","l","l">>
  ELSE IF code.num.n < 0 THEN <<"-">> \o NatToText(0 - code.num.n)
  ELSE NatToText(code.num.n)

RECURSIVE JoinWith(_, _)
\* lines.join(sep)
JoinWith(lines, sep) ==
  IF lines = <<>> THEN <<>>
  ELSE IF Len(lines) = 1 THEN lines[1]
  ELSE lines[1] \o sep \o JoinWith(Tail(lines), sep)

\* an errorMessage that looks at the first stderr line, not the last
ExitErrorMessageFirstLine(code, out, err) ==
  LET generic == <<"P","y","t","h","o","n"," ","p","r","o","c","e","s","s"," ","e","x","i","t","e","d"," ","w","i","t","h"," ","c","o","d","e"," ">> \o CodeToText(code)
      stderrLines == FilterNonBlank(split(err, "\n"))
      lastErrorLine == IF stderrLines = <<>> THEN <<>> ELSE stderrLines[1]
      stdoutLines ==
        SelectSeq(split(out, "\n"),
                  LAMBDA line :
                    /\ trim(line) # <<>>
                    /\ \/ includes(toLowerCase(line), <<"e","r","r","o","r">>)
                       \/ includes(toLowerCase(line), <<"e","x","c","e","p","t","i","o","n">>)
                       \/ includes(toLowerCase(line), <<"f","a","i","l","e","d">>))
  IN  IF err # <<>>
      THEN (IF lastErrorLine # <<>> /\ ~includes(lastErrorLine, <<"T","r","a","c","e","b","a","c","k">>)
            THEN lastErrorLine
            ELSE IF Len(stderrLines) > 0 THEN JoinWith(stderrLines, <<";", " ">>)
            ELSE generic)
      ELSE IF out # <<>>
      THEN (IF Len(stdoutLines) > 0 THEN stdoutLines[Len(stdoutLines)] ELSE generic)
      ELSE generic

\* the errorMessage of a non-zero exit
ExitErrorMessage(code, out, err) ==
  LET generic == <<"P","y","t","h","o","n"," ","p","r","o","c","e","s","s"," ","e","x","i","t","e","d"," ","w","i","t","h"," ","c","o","d","e"," ">> \o CodeToText(code)
      stderrLines == FilterNonBlank(split(err, "\n"))
      lastErrorLine == IF stderrLines = <<>> THEN <<>> ELSE stderrLines[Len(stderrLines)]
      stdoutLines ==
        SelectSeq(split(out, "\n"),
                  LAMBDA line :
                    /\ trim(line) # <<>>
                    /\ \/ includes(toLowerCase(line), <<"e","r","r","o","r">>)
                       \/ includes(toLowerCase(line), <<"e","x","c","e","p","t","i","o","n">>)
                       \/ includes(toLowerCase(line), <<"f","a","i","l","e","d">>))
  IN  IF err # <<>>
      THEN (IF lastErrorLine # <<>> /\ ~includes(lastErrorLine, <<"T","r","a","c","e","b","a","c","k">>)
            THEN lastErrorLine
            ELSE IF Len(stderrLines) > 0 THEN JoinWith(stderrLines, <<";", " ">>)
            ELSE generic)
      ELSE IF out # <<>>
      THEN (IF Len(stdoutLines) > 0 THEN stdoutLines[Len(stdoutLines)] ELSE generic)
      ELSE generic

\* an enrichment that leaves a memo the result already carries alone
WithMemoUnlessCarried(result, out, fs) ==
  LET memoPath == extractMemoPath(out)
  IN  IF /\ memoPath.found /\ memoPath.path \in DOMAIN fs /\ fs[memoPath.path].readable
         /\ ~(HasProp(result, K_memo) /\ Truthy(result[K_memo]))
      THEN SetProp(result, K_memo, Str(fs[memoPath.path].content))
      ELSE result

\* the memo enrichment every branch repeats.  fs is the file system: the
\* paths that exist, each with its content and whether readFileSync can read
\* it (it throws otherwise)
WithMemo(result, out, fs) ==
  LET memoPath == extractMemoPath(out)
  IN  IF memoPath.found /\ memoPath.path \in DOMAIN fs /\ fs[memoPath.path].readable
      THEN SetProp(result, K_memo, Str(fs[memoPath.path].content))
      ELSE result

\* the catch (parseError) block
ParseFallback(message, out, progressMessages, fs) ==
  Fulfilled(
    SetProp(SetProp(WithMemo(parseTextOutput(out), out, fs),
                    K_progressMessages, Array(progressMessages)),
            K_parseError, Str(message)),
    "catch")

\* result.memo = ...; result.progressMessages = progressMessages; resolve(result)
\* for the value JSON.parse returned: the assignment throws on a non-object
ResolveParsed(parsed, via, out, progressMessages, fs) ==
  IF ~parsed.ok
  THEN ParseFallback(SyntaxErrorMessage, out, progressMessages, fs)
  ELSE IF parsed.val.t # "object"
  THEN ParseFallback(TypeErrorMessage, out, progressMessages, fs)
  ELSE Fulfilled(SetProp(WithMemo(parsed.val.obj, out, fs),
                         K_progressMessages, Array(progressMessages)),
                 via)

\* the text handed to JSON.parse on the sentinel branch
SentinelText(out) ==
  trim(substring(out, indexOf(out, JSON_OUTPUT_START) + StartSkip,
                 indexOf(out, JSON_OUTPUT_END)))

\* the try block for exit code 0
ResolveOutput(out, progressMessages, fs) ==
  LET jsonStart == indexOf(out, JSON_OUTPUT_START)
      jsonEnd == indexOf(out, JSON_OUTPUT_END)
      jsonMatch == BraceMatch(out)
  IN  IF jsonStart # -1 /\ jsonEnd # -1
      THEN ResolveParsed(JSONparse(SentinelText(out)), "sentinel",
                         out, progressMessages, fs)
      ELSE IF jsonMatch.found
      THEN ResolveParsed(JSONparse(jsonMatch.all), "bare",
                         out, progressMessages, fs)
      ELSE Fulfilled(SetProp(WithMemo(parseTextOutput(out), out, fs),
                             K_progressMessages, Array(progressMessages)),
                     "text")

\* pythonProcess.on('close', (code) => ...): what the handler settles the job with
CloseOutcome(code, out, err, progressMessages, fs) ==
  IF ~(code.t = "number" /\ code.num = NoNum)
  THEN Rejected(ExitErrorMessage(code, out, err), code, "exit")
  ELSE ResolveOutput(out, progressMessages, fs)

(***************************************************************************)
(* routes/analysis.ts: request validation (both endpoints)                 *)
(***************************************************************************)

validHorizons == { <<"s","h","o","r","t">>, <<"m","e","d","i","u","m">>, <<"l","o","n","g">> }

validRiskProfiles ==
  { <<"c","o","n","s","e","r","v","a","t","i","v","e">>,
    <<"m","o","d","e","r","a","t","e">>,
    <<"a","g","g","r","e","s","s","i","v","e">> }

MissingFieldsMessage ==
  <<"M","i","s","s","i","n","g"," ","r","e","q","u","i","r","e","d"," ","f","i","e","l","d","s",":"," ","t","i","c","k","e","r",","," ","h","o","r","i","z","o","n",","," ","r","i","s","k","_","p","r","o","f","i","l","e">>

InvalidHorizonMessage ==
  <<"I","n","v","a","l","i","d"," ","h","o","r","i","z","o","n","."," ","M","u","s","t"," ","b","e"," ","o","n","e"," ","o","f",":"," ","s","h","o","r","t",","," ","m","e","d","i","u","m",","," ","l","o","n","g">>

InvalidRiskProfileMessage ==
  <<"I","n","v","a","l","i","d"," ","r","i","s","k","_","p","r","o","f","i","l","e","."," ","M","u","s","t"," ","b","e"," ","o","n","e"," ","o","f",":"," ","c","o","n","s","e","r","v","a","t","i","v","e",","," ","m","o","d","e","r","a","t","e",","," ","a","g","g","r","e","s","s","i","v","e">>

\* the message of the TypeError of x.toLowerCase() / x.toUpperCase() on a
\* value that is no string
NotAFunctionMessage == <<"i","s"," ","n","o","t"," ","a"," ","f","u","n","c","t","i","o","n">>

\* a validation whose first test leaves the ticker out
ValidateWithoutTicker(body) ==
  IF ~Truthy(body.horizon) \/ ~Truthy(body.risk_profile)
  THEN "missing"
  ELSE IF body.horizon.t # "string" THEN "throw"
  ELSE IF toLowerCase(body.horizon.text) \notin validHorizons THEN "horizon"
  ELSE IF body.risk_profile.t # "string" THEN "throw"
  ELSE IF toLowerCase(body.risk_profile.text) \notin validRiskProfiles THEN "risk_profile"
  ELSE IF body.ticker.t # "string" THEN "throw"
  ELSE "ok"

\* What the statements of the handler before the call of runAnalysis do with
\* the body: "missing", "horizon", "risk_profile" (a 400 reply each), "throw"
\* (a TypeError reaches the catch block of the handler) or "ok".
Validate(body) ==
  IF ~Truthy(body.ticker) \/ ~Truthy(body.horizon) \/ ~Truthy(body.risk_profile)
  THEN "missing"
  ELSE IF body.horizon.t # "string" THEN "throw"
  ELSE IF toLowerCase(body.horizon.text) \notin validHorizons THEN "horizon"
  ELSE IF body.risk_profile.t # "string" THEN "throw"
  ELSE IF toLowerCase(body.risk_profile.text) \notin validRiskProfiles THEN "risk_profile"
  ELSE IF body.ticker.t # "string" THEN "throw"
  ELSE "ok"

\* the message of the 400 reply
ValidationMessage(verdict) ==
  CASE verdict = "missing" -> MissingFieldsMessage
    [] verdict = "horizon" -> InvalidHorizonMessage
    [] verdict = "risk_profile" -> InvalidRiskProfileMessage

(***************************************************************************)
(* routes/analysis.ts: the streaming session.  The closure state of one    *)
(* request is the record session: the flags connectionAlive and            *)
(* responseEnded, whether the keep-alive interval is set, the flags of the *)
(* response object res, and transport, the writes attempted on res, in     *)
(* order, each with its fate: "sent", "dropped" (res was ended or          *)
(* destroyed) or "threw".                                                  *)
(***************************************************************************)

K_step == <<"s","t","e","p">>

K_message == <<"m","e","s","s","a","g","e">>

K_status == <<"s","t","a","t","u","s">>

K_data == <<"d","a","t","a">>

K_timing == <<"t","i","m","i","n","g">>

ProgressData(step, message) ==
  Object(SetProp(SetProp(EmptyObject, K_step, Str(step)), K_message, Str(message)))

NewResponse ==
  [writableEnded |-> FALSE, destroyed |-> FALSE, closed |-> FALSE,
   finished |-> FALSE, errorPending |-> FALSE]

NoSession ==
  [connectionAlive |-> FALSE, responseEnded |-> FALSE, keepAliveInterval |-> FALSE,
   res |-> NewResponse, transport |-> <<>>]

\* !(res.destroyed || res.closed || res.writableEnded)
Writable(res) == ~(res.destroyed \/ res.closed \/ res.writableEnded)

\* res.write of one event (its event: line and its data: line) that does not throw
resWrite(s, event, data) ==
  IF Writable(s.res)
  THEN [s EXCEPT !.transport = Append(@, [event |-> event, data |-> data, fate |-> "sent"])]
  ELSE [s EXCEPT !.transport = Append(@, [event |-> event, data |-> data, fate |-> "dropped"]),
                 !.res.errorPending = TRUE]

\* res.write of one event that throws
resWriteThrows(s, event, data) ==
  [s EXCEPT !.transport = Append(@, [event |-> event, data |-> data, fate |-> "threw"])]

\* res.end()
resEnd(s) == [s EXCEPT !.res.writableEnded = TRUE]

\* a marking that clears connectionAlive and the interval only
markClosedAliveOnly(s) ==
  [s EXCEPT !.connectionAlive = FALSE, !.keepAliveInterval = FALSE]

\* connectionAlive = false; responseEnded = true; clearInterval(keepAliveInterval)
markClosed(s) ==
  [s EXCEPT !.connectionAlive = FALSE, !.responseEnded = TRUE, !.keepAliveInterval = FALSE]

clearInterval(s) == [s EXCEPT !.keepAliveInterval = FALSE]

\* a sendProgress that writes only the events it would log
sendProgressLoggedOnly(s, progressData, throws) ==
  IF s.responseEnded THEN s
  ELSE IF ~Writable(s.res) THEN (IF s.connectionAlive THEN markClosed(s) ELSE s)
  ELSE LET s1 == IF ~s.connectionAlive /\ ~s.responseEnded
                 THEN [s EXCEPT !.connectionAlive = TRUE] ELSE s
           logged == \/ progressData.obj[K_step] # Str(<<"s","y","s","t","e","m">>)
                     \/ includes(progressData.obj[K_message].text, <<"A","g","e","n","t">>)
       IN  IF ~logged THEN s1
           ELSE IF throws THEN markClosed(resWriteThrows(s1, "progress", progressData))
           ELSE resWrite(s1, "progress", progressData)

\* const sendProgress = (progressData) => ... ; throws: whether res.write throws
sendProgress(s, progressData, throws) ==
  IF s.responseEnded THEN s
  ELSE IF ~Writable(s.res) THEN (IF s.connectionAlive THEN markClosed(s) ELSE s)
  ELSE LET s1 == IF ~s.connectionAlive /\ ~s.responseEnded
                 THEN [s EXCEPT !.connectionAlive = TRUE] ELSE s
       IN  IF throws THEN markClosed(resWriteThrows(s1, "progress", progressData))
           ELSE resWrite(s1, "progress", progressData)

RECURSIVE sendAll(_, _, _)
\* onProgress called for each of the events in turn
sendAll(s, events, throws) ==
  IF events = <<>> THEN s
  ELSE sendAll(sendProgress(s, Head(events), throws), Tail(events), throws)

\* the callback of setInterval(..., 15000)
keepAlive(s, throws) ==
  IF ~s.connectionAlive \/ s.responseEnded THEN clearInterval(s)
  ELSE IF ~Writable(s.res) THEN markClosed(s)
  ELSE IF throws THEN markClosed(resWriteThrows(s, "keep-alive", Undefined))
  ELSE resWrite(s, "keep-alive", Undefined)

\* x || y for strings
OrElse(x, y) == IF x # <<>> THEN x ELSE y

AnalysisFailedMessage == <<"A","n","a","l","y","s","i","s"," ","f","a","i","l","e","d">>

SetupFailedMessage == <<"F","a","i","l","e","d"," ","t","o"," ","s","t","a","r","t"," ","a","n","a","l","y","s","i","s">>

ErrorBody(message) ==
  Object(SetProp(SetProp(EmptyObject, K_status, Str(<<"e","r","r","o","r">>)), K_message, Str(message)))

\* { status: 'success', data: result, timing: result.timing || {} }
SuccessBody(result) ==
  Object(SetProp(SetProp(SetProp(EmptyObject,
    K_status, Str(<<"s","u","c","c","e","s","s">>)),
    K_data, Object(result)),
    K_timing, IF HasProp(result, K_timing) /\ Truthy(result[K_timing])
              THEN result[K_timing] ELSE Object(EmptyObject)))

\* the message of the exception of a res.write that throws
WriteErrorMessage == <<"w","r","i","t","e"," ","E","P","I","P","E">>

\* a catch callback that leaves the response open after its error event
onRejectedLeavesOpen(s, error, throws) ==
  LET body == ErrorBody(OrElse(error.message, AnalysisFailedMessage))
  IN  IF throws THEN resWriteThrows(clearInterval(s), "error", body)
      ELSE resWrite(clearInterval(s), "error", body)

\* .catch((error) => ...) of the streaming handler
onRejected(s, error, throws) ==
  LET body == ErrorBody(OrElse(error.message, AnalysisFailedMessage))
  IN  IF throws THEN resWriteThrows(clearInterval(s), "error", body)
      ELSE resEnd(resWrite(clearInterval(s), "error", body))

\* .then((result) => ...) of the streaming handler; an exception of its write
\* rejects the promise .catch is attached to, so the catch callback runs next
onFulfilled(s, result, throws) ==
  IF throws
  THEN onRejected(resWriteThrows(clearInterval(s), "complete", SuccessBody(result)),
                  [message |-> WriteErrorMessage, code |-> Undefined], throws)
  ELSE resEnd(resWrite(clearInterval(s), "complete", SuccessBody(result)))

(***************************************************************************)
(* Bounds and inputs                                                       *)
(***************************************************************************)

\* stdout and stderr 'data' events of one job
MaxData == 2

\* keep-alive timer callbacks of one session
MaxKeepAlive == 1

TickerValues == {Undefined, Null, Str(<<>>), Str(<<"a","a","p","l">>), Number(Norm(5, 0))}

HorizonValues ==
  {Undefined, Str(<<>>), Number(NoNum), Str(<<"S","H","O","R","T">>),
   Str(<<"w","e","e","k","l","y">>), Str(<<"s","h","o","r","t","e","r">>), Number(Norm(5, 0))}

RiskProfileValues ==
  {Undefined, Str(<<>>), Str(<<"M","o","d","e","r","a","t","e">>),
   Str(<<"r","i","s","k","y">>), Bool(TRUE)}

Requests ==
  [endpoint : {"analyze", "stream"},
   body : [ticker : TickerValues, horizon : HorizonValues, risk_profile : RiskProfileValues]]

\* chunks of the 'data' events of stdout
StdoutChunks ==
  { <<"[","A","g","e","n","t","]"," ","g","o","\n","p","a","r">>,
    <<"t","i","a","l"," ","[","o","k","]","\n">> }

\* chunks of the 'data' events of stderr
StderrChunks == { <<"w","a","r","n","\n">> }

\* file systems: with and without main.py at the project root
File(content, readable) == [content |-> content, readable |-> readable]

ScriptOnly == (pythonScript :> File(<<"#">>, TRUE))

FileSystems == { <<>>, ScriptOnly }

(***************************************************************************)
(* State                                                                   *)
(***************************************************************************)

VARIABLES
  request,           \* the request: [endpoint, body]
  phase,             \* "received", "rejected" (400), "threw" (catch block), "launched"
  reply,             \* the JSON reply: [status, body]; status 0 while none
  launches,          \* calls of runAnalysis
  session,           \* the streaming session (closure state, res, transport)
  clientGone,        \* the peer has gone (the server may not have noticed yet)
  reqClosed,         \* req has emitted 'close'
  proc,              \* the subprocess: "none", "running", "closed"
  killed,            \* pythonProcess.kill() was called
  timeout,           \* the 60-minute timer is set
  spawnFailed,       \* the subprocess emitted 'error'
  exitCode,          \* the code of the 'close' event; undefined before it
  settlement,        \* the promise of runAnalysis
  processStarted,
  stdout,
  stderr,
  progressMessages,
  dataEvents,        \* 'data' events so far
  ticks,             \* keep-alive callbacks so far
  files,             \* the file system: path -> [content, readable]
  others             \* the closure state and job of the other request in flight

reqVars == <<request, phase, reply, launches>>

envVars == <<clientGone, reqClosed, files, others>>

jobVars ==
  <<proc, killed, timeout, spawnFailed, exitCode, settlement, processStarted,
    stdout, stderr, progressMessages, dataEvents>>

vars == <<reqVars, session, ticks, envVars, jobVars>>

NoReply == [status |-> 0, body |-> Undefined]

\* no other request is in flight
NoOther == [phase |-> "none"]

NoJob ==
  /\ proc = "none"
  /\ killed = FALSE
  /\ timeout = FALSE
  /\ spawnFailed = FALSE
  /\ exitCode = Undefined
  /\ settlement = Pending
  /\ processStarted = FALSE
  /\ stdout = <<>>
  /\ stderr = <<>>
  /\ progressMessages = <<>>
  /\ dataEvents = 0

Init ==
  /\ request \in Requests
  /\ files \in FileSystems
  /\ phase = "received"
  /\ reply = NoReply
  /\ launches = 0
  /\ session = NoSession
  /\ ticks = 0
  /\ clientGone = FALSE
  /\ reqClosed = FALSE
  /\ NoJob
  /\ others = NoOther

\* whether a res.write of this step may throw: only once the peer has gone
ThrowChoices == IF clientGone THEN BOOLEAN ELSE {FALSE}

\* the endpoint passed a progress callback to runAnalysis
onProgress == request.endpoint = "stream"

(***************************************************************************)
(* The promise of runAnalysis and its callbacks                            *)
(***************************************************************************)

\* the callbacks of the caller on the settlement: then/catch of the streaming
\* handler, or the code after await and the catch block of POST /analyze
Deliver(s, outcome, throws) ==
  IF request.endpoint = "stream"
  THEN /\ session' = IF outcome.state = "fulfilled"
                     THEN onFulfilled(s, outcome.value, throws)
                     ELSE onRejected(s, outcome.error, throws)
       /\ UNCHANGED reply
  ELSE /\ reply' = IF outcome.state = "fulfilled"
                   THEN [status |-> 200, body |-> SuccessBody(outcome.value)]
                   ELSE [status |-> 500,
                         body |-> ErrorBody(OrElse(outcome.error.message,
                                                   AnalysisFailedMessage))]
       /\ UNCHANGED session

\* a promise whose callbacks run on every call of resolve or reject
SettleEveryCall(outcome, throws) ==
  settlement' = outcome /\ Deliver(session, outcome, throws)

\* resolve(..) / reject(..): only the first call settles the promise, and the
\* callbacks run (as microtasks) before any other event is handled
Settle(outcome, throws) ==
  IF settlement.state = "pending"
  THEN settlement' = outcome /\ Deliver(session, outcome, throws)
  ELSE UNCHANGED <<settlement, session, reply>>

(***************************************************************************)
(* runAnalysis, up to its return                                           *)
(***************************************************************************)

\* a path as text
PathText(path) == <<"/">> \o JoinWith(path, <<"/">>)

ScriptNotFoundMessage ==
  <<"P","y","t","h","o","n"," ","s","c","r","i","p","t"," ","n","o","t"," ","f","o","u","n","d"," ","a","t",":"," ">> \o PathText(pythonScript)

SpawnErrorMessage ==
  <<"F","a","i","l","e","d"," ","t","o"," ","s","t","a","r","t"," ","P","y","t","h","o","n"," ","p","r","o","c","e","s","s",":"," ">>
    \o <<"s","p","a","w","n"," ","p","y","t","h","o","n","3"," ","E","N","O","E","N","T">>
    \o <<"."," ","M","a","k","e"," ","s","u","r","e"," ","P","y","t","h","o","n"," ","i","s"," ","i","n","s","t","a","l","l","e","d"," ","a","n","d"," ","a","c","c","e","s","s","i","b","l","e",".">>

StartedNotice ==
  ProgressData(<<"s","y","s","t","e","m">>,
    <<"P","y","t","h","o","n"," ","p","r","o","c","e","s","s"," ","s","t","a","r","t","e","d",","," ","i","n","i","t","i","a","l","i","z","i","n","g",".",".",".">>)

RunningNotice ==
  ProgressData(<<"s","y","s","t","e","m">>,
    <<"P","y","t","h","o","n"," ","p","r","o","c","e","s","s"," ","i","s"," ","r","u","n","n","i","n","g"," ","a","n","d"," ","p","r","o","d","u","c","i","n","g"," ","o","u","t","p","u","t",".",".",".">>)

\* runAnalysis(ticker, horizon, riskProfile, onProgress) called with the
\* session in the state s: the executor of the promise
runAnalysis(s) ==
  /\ launches' = launches + 1
  /\ IF pythonScript \notin DOMAIN files
     THEN LET outcome == Rejected(ScriptNotFoundMessage, Undefined, "script")
          IN  /\ settlement' = outcome
              /\ Deliver(s, outcome, FALSE)
              /\ UNCHANGED <<proc, timeout>>
     ELSE /\ proc' = "running"
          /\ timeout' = TRUE
          /\ session' = IF onProgress THEN sendProgress(s, StartedNotice, FALSE) ELSE s
          /\ UNCHANGED <<settlement, reply>>
  /\ UNCHANGED <<killed, spawnFailed, exitCode, processStarted, stdout, stderr,
                 progressMessages, dataEvents>>

(***************************************************************************)
(* routes/analysis.ts: the two handlers                                    *)
(***************************************************************************)

\* router.post('/analyze', ...) up to its await
HandleAnalyze ==
  /\ phase = "received"
  /\ request.endpoint = "analyze"
  /\ LET verdict == Validate(request.body)
     IN  IF verdict = "ok"
         THEN /\ phase' = "launched"
              /\ runAnalysis(session)
         ELSE /\ phase' = IF verdict = "throw" THEN "threw" ELSE "rejected"
              /\ reply' = IF verdict = "throw"
                          THEN [status |-> 500,
                                body |-> ErrorBody(OrElse(NotAFunctionMessage,
                                                          AnalysisFailedMessage))]
                          ELSE [status |-> 400,
                                body |-> ErrorBody(ValidationMessage(verdict))]
              /\ UNCHANGED <<launches, session, jobVars>>
  /\ UNCHANGED <<request, ticks, envVars>>

\* router.post('/analyze/stream', ...) up to its return
HandleStream ==
  /\ phase = "received"
  /\ request.endpoint = "stream"
  /\ LET verdict == Validate(request.body)
         starting ==
           ProgressData(<<"s","y","s","t","e","m">>,
             <<"S","t","a","r","t","i","n","g"," ","a","n","a","l","y","s","i","s"," ","f","o","r"," ">>
               \o toUpperCase(request.body.ticker.text) \o <<".", ".", ".">>)
         opened == [resWrite(NoSession, "progress", starting)
                      EXCEPT !.connectionAlive = TRUE, !.keepAliveInterval = TRUE]
     IN  IF verdict = "ok"
         THEN /\ phase' = "launched"
              /\ runAnalysis(opened)
         ELSE IF verdict = "throw"
         THEN /\ phase' = "threw"
              /\ session' = resEnd(resWrite(NoSession, "error",
                                ErrorBody(OrElse(NotAFunctionMessage, SetupFailedMessage))))
              /\ UNCHANGED <<reply, launches, jobVars>>
         ELSE /\ phase' = "rejected"
              /\ reply' = [status |-> 400,
                           body |-> ErrorBody(ValidationMessage(verdict))]
              /\ UNCHANGED <<launches, session, jobVars>>
  /\ UNCHANGED <<request, ticks, envVars>>

(***************************************************************************)
(* pythonService.js: the events of the subprocess and the watchdog         *)
(***************************************************************************)

\* the step of a stdout line
StepOf(line) ==
  LET stepMatch == StepMatch(line)
  IN  IF stepMatch.found THEN stepMatch.g1 ELSE <<"s","y","s","t","e","m">>

\* the progress events of the non-blank lines of one chunk
LineEvents(chunk) ==
  LET lines == FilterNonBlank(split(chunk, "\n"))
  IN  [i \in DOMAIN lines |-> ProgressData(StepOf(lines[i]), trim(lines[i]))]

\* pythonProcess.stdout.on('data', ...)
StdoutData(chunk) ==
  /\ proc = "running"
  /\ ~spawnFailed
  /\ dataEvents < MaxData
  /\ \E throws \in ThrowChoices :
       LET events == LineEvents(chunk)
           s1 == IF ~processStarted THEN sendProgress(session, RunningNotice, throws)
                 ELSE session
       IN  /\ session' = IF onProgress THEN sendAll(s1, events, throws) ELSE session
           /\ progressMessages' = progressMessages \o events
  /\ processStarted' = TRUE
  /\ stdout' = stdout \o chunk
  /\ dataEvents' = dataEvents + 1
  /\ UNCHANGED <<reqVars, ticks, envVars, proc, killed, timeout, spawnFailed,
                 exitCode, settlement, stderr>>

\* pythonProcess.stderr.on('data', ...)
StderrData(chunk) ==
  /\ proc = "running"
  /\ ~spawnFailed
  /\ dataEvents < MaxData
  /\ \E throws \in ThrowChoices :
       LET trimmedChunk == trim(chunk)
           progressData == ProgressData(<<"e","r","r","o","r">>,
                                        <<"E","r","r","o","r",":"," ">> \o trimmedChunk)
       IN  IF trimmedChunk # <<>> /\ onProgress
           THEN /\ session' = sendProgress(session, progressData, throws)
                /\ progressMessages' = Append(progressMessages, progressData)
           ELSE UNCHANGED <<session, progressMessages>>
  /\ stderr' = stderr \o chunk
  /\ dataEvents' = dataEvents + 1
  /\ UNCHANGED <<reqVars, ticks, envVars, proc, killed, timeout, spawnFailed,
                 exitCode, settlement, processStarted, stdout>>

Code(n) == Number(Norm(n, 0))

\* the exit codes a 'close' event can carry: null when a signal ended the
\* process, negative when it could not be spawned
ExitCodes ==
  IF spawnFailed THEN {Code(0 - 2)}
  ELSE {Code(0), Code(1)} \cup (IF killed THEN {Null} ELSE {})

\* pythonProcess.on('close', ...): both listeners
ProcClose(code) ==
  /\ proc = "running"
  /\ code \in ExitCodes
  /\ \E throws \in ThrowChoices :
       Settle(CloseOutcome(code, stdout, stderr, progressMessages, files), throws)
  /\ proc' = "closed"
  /\ exitCode' = code
  /\ timeout' = FALSE
  /\ UNCHANGED <<request, phase, launches, ticks, envVars, killed, spawnFailed,
                 processStarted, stdout, stderr, progressMessages, dataEvents>>

\* pythonProcess.on('error', ...): the process could not be spawned
ProcError ==
  /\ proc = "running"
  /\ ~spawnFailed
  /\ ~killed
  /\ ~processStarted /\ stdout = <<>> /\ stderr = <<>>
  /\ \E throws \in ThrowChoices :
       Settle(Rejected(SpawnErrorMessage, Undefined, "error"), throws)
  /\ spawnFailed' = TRUE
  /\ UNCHANGED <<request, phase, launches, ticks, envVars, proc, killed, timeout,
                 exitCode, processStarted, stdout, stderr, progressMessages, dataEvents>>

\* a watchdog that kills the subprocess and leaves the job to its close event
TimeoutKillsOnly ==
  /\ timeout
  /\ killed' = TRUE
  /\ timeout' = FALSE
  /\ UNCHANGED <<request, phase, reply, launches, session, ticks, envVars, proc,
                 spawnFailed, exitCode, settlement, processStarted, stdout, stderr,
                 progressMessages, dataEvents>>

\* the callback of setTimeout(..., 60 * 60 * 1000)
Timeout ==
  /\ timeout
  /\ killed' = TRUE
  /\ timeout' = FALSE
  /\ \E throws \in ThrowChoices :
       Settle(Rejected(TimeoutMessage, Undefined, "timeout"), throws)
  /\ UNCHANGED <<request, phase, launches, ticks, envVars, proc, spawnFailed,
                 exitCode, processStarted, stdout, stderr, progressMessages, dataEvents>>

(***************************************************************************)
(* routes/analysis.ts: the timer and the listeners of the session          *)
(***************************************************************************)

\* the handler has set the session up (its listeners are registered)
Streaming == request.endpoint = "stream" /\ phase = "launched"

\* the keep-alive interval fires
KeepAliveTick ==
  /\ Streaming
  /\ session.keepAliveInterval
  /\ ticks < MaxKeepAlive
  /\ \E throws \in ThrowChoices : session' = keepAlive(session, throws)
  /\ ticks' = ticks + 1
  /\ UNCHANGED <<reqVars, envVars, jobVars>>

\* the peer goes away
ClientDisconnect ==
  /\ Streaming
  /\ ~clientGone
  /\ clientGone' = TRUE
  /\ UNCHANGED <<reqVars, session, ticks, reqClosed, files, others, jobVars>>

\* a request close listener that takes every close of the request as the
\* end of the session
ReqCloseAbandons ==
  /\ Streaming
  /\ ~reqClosed
  /\ reqClosed' = TRUE
  /\ session' = IF session.connectionAlive THEN markClosed(session) ELSE session
  /\ UNCHANGED <<reqVars, ticks, clientGone, files, others, jobVars>>

\* req.on('close', ...)
ReqClose ==
  /\ Streaming
  /\ ~reqClosed
  /\ reqClosed' = TRUE
  /\ session' = IF session.connectionAlive /\ ~Writable(session.res)
                THEN markClosed(session) ELSE session
  /\ UNCHANGED <<reqVars, ticks, clientGone, files, others, jobVars>>

\* a close listener that also kills the subprocess
ResCloseKills ==
  /\ Streaming
  /\ ~session.res.closed
  /\ clientGone \/ session.res.finished
  /\ LET s == [session EXCEPT !.res.destroyed = TRUE, !.res.closed = TRUE]
     IN  session' = IF s.connectionAlive THEN markClosed(s) ELSE s
  /\ killed' = (killed \/ proc = "running")
  /\ UNCHANGED <<reqVars, ticks, envVars, proc, timeout, spawnFailed, exitCode,
                 settlement, processStarted, stdout, stderr, progressMessages,
                 dataEvents>>

\* a close listener whose flags are shared by every request
ResCloseSharedFlags ==
  /\ Streaming
  /\ ~session.res.closed
  /\ clientGone \/ session.res.finished
  /\ LET s == [session EXCEPT !.res.destroyed = TRUE, !.res.closed = TRUE]
     IN  session' = IF s.connectionAlive THEN markClosed(s) ELSE s
  /\ others' = IF others = NoOther THEN others
               ELSE [others EXCEPT !.session = markClosed(@)]
  /\ UNCHANGED <<reqVars, ticks, clientGone, reqClosed, files, jobVars>>

\* res.on('close', ...): the connection is gone, or the response is finished
ResClose ==
  /\ Streaming
  /\ ~session.res.closed
  /\ clientGone \/ session.res.finished
  /\ LET s == [session EXCEPT !.res.destroyed = TRUE, !.res.closed = TRUE]
     IN  session' = IF s.connectionAlive THEN markClosed(s) ELSE s
  /\ UNCHANGED <<reqVars, ticks, envVars, jobVars>>

\* res.on('finish', ...): res.end() was called and the data has been flushed
ResFinish ==
  /\ Streaming
  /\ session.res.writableEnded
  /\ ~session.res.finished
  /\ ~session.res.destroyed
  /\ session' = markClosed([session EXCEPT !.res.finished = TRUE])
  /\ UNCHANGED <<reqVars, ticks, envVars, jobVars>>

\* res.on('error', ...): a write on the ended or destroyed response
ResError ==
  /\ Streaming
  /\ session.res.errorPending
  /\ session' = markClosed([session EXCEPT !.res.errorPending = FALSE])
  /\ UNCHANGED <<reqVars, ticks, envVars, jobVars>>

Next ==
  \/ HandleAnalyze
  \/ HandleStream
  \/ \E chunk \in StdoutChunks : StdoutData(chunk)
  \/ \E chunk \in StderrChunks : StderrData(chunk)
  \/ \E code \in {Null, Code(0 - 2), Code(0), Code(1)} : ProcClose(code)
  \/ ProcError
  \/ Timeout
  \/ KeepAliveTick
  \/ ClientDisconnect
  \/ ReqClose
  \/ ResClose
  \/ ResFinish
  \/ ResError

Spec == Init /\ [][Next]_vars

\* the set timer fires after its 60 minutes unless clearTimeout comes first
SpecLive == Spec /\ WF_vars(Timeout)

(***************************************************************************)
(* The 'close' handler on its own: the job of a POST /analyze is running,  *)
(* its subprocess has written all of its output in one chunk, and closes.  *)
(***************************************************************************)

\* what the subprocess printed before its result
Prefixes == { <<>>, <<"[","A","g","e","n","t","]"," ","g","o","\n">> }

\* what follows the start marker
Separators == { <<>>, <<"\n">>, <<"x">> }

\* what the subprocess printed as its result
Payloads ==
  { <<"{","\"","r","e","c","o","m","m","e","n","d","a","t","i","o","n","\"",":","\"","B","U","Y","\"",",","\"","c","o","n","f","i","d","e","n","c","e","_","s","c","o","r","e","\"",":","0",".","8","}">>,
    <<"{","\"","r","e","c","o","m","m","e","n","d","a","t","i","o","n","\"",":","\"","H","O","L","D","\"",",","\"","m","e","m","o","\"",":","\"","o","l","d","\"",",","\"","s","c","e","n","a","r","i","o","s","\"",":","{","\"","b","u","l","l","\"",":","{","\"","p","r","o","b","\"",":","0",".","5","}","}","}">>,
    <<"{","\"","r","e","c","o","m","m","e","n","d","a","t","i","o","n","\"",":">>,
    <<"n","u","l","l">> }

\* what the subprocess printed after its result
Suffixes ==
  { <<>>,
    <<"R","e","c","o","m","m","e","n","d","a","t","i","o","n",":"," ","S","E","L","L","\n">>,
    <<"I","n","v","e","s","t","m","e","n","t"," ","m","e","m","o"," ","s","a","v","e","d"," ","t","o",":"," ","o","u","t","p","u","t","s","/","m","e","m","o",".","m","d","\n">>,
    <<"E","r","r","o","r",":"," ","n","o"," ","d","a","t","a","\n","r","u","n"," ","F","A","I","L","E","D","\n">> }

\* the result between the markers, each on a line of its own but for the
\* separator
Marked(sep, payload) ==
  JSON_OUTPUT_START \o sep \o payload \o <<"\n">> \o JSON_OUTPUT_END \o <<"\n">>

Results ==
  {Marked(sep, payload) : sep \in Separators, payload \in Payloads}
    \cup {payload \o <<"\n">> : payload \in Payloads}
    \cup {<<>>}

SampleOutputs ==
  {prefix \o result \o suffix :
     prefix \in Prefixes, result \in Results, suffix \in Suffixes}

SampleErrors ==
  { <<>>,
    <<"\n">>,
    <<"T","r","a","c","e","b","a","c","k"," ","(","m","o","s","t"," ","r","e","c","e","n","t"," ","c","a","l","l"," ","l","a","s","t",")",":","\n","V","a","l","u","e","E","r","r","o","r",":"," ","b","a","d"," ","t","i","c","k","e","r","\n">>,
    <<"b","o","o","m","\n","T","r","a","c","e","b","a","c","k"," ","(","m","o","s","t"," ","r","e","c","e","n","t"," ","c","a","l","l"," ","l","a","s","t",")",":","\n">> }

\* the memo file the suffix names, where extractMemoPath looks for it
MemoFile == pathJoin(memoRoot, <<"o","u","t","p","u","t","s","/","m","e","m","o",".","m","d">>)

MemoText == <<"#"," ","M","e","m","o">>

\* the memo file the suffix names, where the subprocess writes it: under its
\* working directory (spawn: cwd: projectRoot)
WrittenMemoFile == pathJoin(projectRoot, <<"o","u","t","p","u","t","s","/","m","e","m","o",".","m","d">>)

ResolveFileSystems ==
  { ScriptOnly,
    (MemoFile :> File(MemoText, TRUE)) @@ ScriptOnly,
    (MemoFile :> File(MemoText, FALSE)) @@ ScriptOnly,
    (WrittenMemoFile :> File(MemoText, TRUE)) @@ ScriptOnly }

InitResolve ==
  /\ request = [endpoint |-> "analyze",
                body |-> [ticker |-> Str(<<"a","a","p","l">>),
                          horizon |-> Str(<<"S","H","O","R","T">>),
                          risk_profile |-> Str(<<"M","o","d","e","r","a","t","e">>)]]
  /\ files \in ResolveFileSystems
  /\ phase = "launched"
  /\ reply = NoReply
  /\ launches = 1
  /\ session = NoSession
  /\ ticks = 0
  /\ clientGone = FALSE
  /\ reqClosed = FALSE
  /\ proc = "running"
  /\ killed = FALSE
  /\ timeout = TRUE
  /\ spawnFailed = FALSE
  /\ exitCode = Undefined
  /\ settlement = Pending
  /\ stdout \in SampleOutputs
  /\ stderr \in SampleErrors
  /\ processStarted = (stdout # <<>>)
  /\ progressMessages = LineEvents(stdout)
  /\ dataEvents = (IF stdout # <<>> THEN 1 ELSE 0) + (IF stderr # <<>> THEN 1 ELSE 0)
  /\ others = NoOther

NextResolve == \E code \in {Code(0), Code(1)} : ProcClose(code)

SpecResolve == InitResolve /\ [][NextResolve]_vars

(***************************************************************************)
(* Two streaming requests in flight: each call of the handler has its own  *)
(* closure (keepAliveInterval, connectionAlive, responseEnded, res) and    *)
(* each call of runAnalysis its own locals; the event loop runs the        *)
(* callbacks of the two requests in any order                              *)
(***************************************************************************)

\* the state this request owns
Own ==
  [request |-> request, phase |-> phase, reply |-> reply, launches |-> launches,
   session |-> session, ticks |-> ticks, clientGone |-> clientGone,
   reqClosed |-> reqClosed, proc |-> proc, killed |-> killed, timeout |-> timeout,
   spawnFailed |-> spawnFailed, exitCode |-> exitCode, settlement |-> settlement,
   processStarted |-> processStarted, stdout |-> stdout, stderr |-> stderr,
   progressMessages |-> progressMessages, dataEvents |-> dataEvents]

\* a request as the router hands it to the handler
Received(req) ==
  [request |-> req, phase |-> "received", reply |-> NoReply, launches |-> 0,
   session |-> NoSession, ticks |-> 0, clientGone |-> FALSE, reqClosed |-> FALSE,
   proc |-> "none", killed |-> FALSE, timeout |-> FALSE, spawnFailed |-> FALSE,
   exitCode |-> Undefined, settlement |-> Pending, processStarted |-> FALSE,
   stdout |-> <<>>, stderr |-> <<>>, progressMessages |-> <<>>, dataEvents |-> 0]

StreamRequest(ticker, horizon, risk_profile) ==
  [endpoint |-> "stream",
   body |-> [ticker |-> Str(ticker), horizon |-> Str(horizon),
             risk_profile |-> Str(risk_profile)]]

RequestA ==
  StreamRequest(<<"a","a","p","l">>, <<"S","H","O","R","T">>,
                <<"M","o","d","e","r","a","t","e">>)

RequestB ==
  StreamRequest(<<"i","b","m">>, <<"l","o","n","g">>,
                <<"a","g","g","r","e","s","s","i","v","e">>)

InitTwo ==
  /\ request = RequestA
  /\ files = ScriptOnly
  /\ phase = "received"
  /\ reply = NoReply
  /\ launches = 0
  /\ session = NoSession
  /\ ticks = 0
  /\ clientGone = FALSE
  /\ reqClosed = FALSE
  /\ NoJob
  /\ others = Received(RequestB)

\* the event loop turns to the callbacks of the other request
Switch ==
  /\ others # NoOther
  /\ others' = Own
  /\ request' = others.request
  /\ phase' = others.phase
  /\ reply' = others.reply
  /\ launches' = others.launches
  /\ session' = others.session
  /\ ticks' = others.ticks
  /\ clientGone' = others.clientGone
  /\ reqClosed' = others.reqClosed
  /\ proc' = others.proc
  /\ killed' = others.killed
  /\ timeout' = others.timeout
  /\ spawnFailed' = others.spawnFailed
  /\ exitCode' = others.exitCode
  /\ settlement' = others.settlement
  /\ processStarted' = others.processStarted
  /\ stdout' = others.stdout
  /\ stderr' = others.stderr
  /\ progressMessages' = others.progressMessages
  /\ dataEvents' = others.dataEvents
  /\ UNCHANGED files

\* the callbacks of the request the event loop is at: one 'data' event of
\* stdout and one keep-alive callback for each request
NextTwo ==
  \/ Switch
  \/ HandleStream
  \/ dataEvents = 0 /\ StdoutData(<<"[","A","g","e","n","t","]"," ","g","o","\n","p","a","r">>)
  \/ \E code \in {Code(0), Code(1)} : ProcClose(code)
  \/ Timeout
  \/ ticks = 0 /\ KeepAliveTick
  \/ ClientDisconnect
  \/ ResClose

SpecTwo == InitTwo /\ [][NextTwo]_vars

(***************************************************************************)
(* Properties of the streaming session and of the job                      *)
(***************************************************************************)

\* the writes of terminal events (complete, error) in a transport
TerminalWrites(transport) ==
  {i \in DOMAIN transport : transport[i].event \in {"complete", "error"}}

\* the terminal events written: the res.write returned
TerminalsWritten(transport) ==
  {i \in TerminalWrites(transport) : transport[i].fate # "threw"}

\* C1: over every interleaving of subprocess output, close, spawn error,
\* watchdog expiry, keep-alive ticks, client disconnect and write failure, at
\* most one terminal event (complete or error) is written to the transport of
\* a session.
C1_AtMostOneTerminal ==
  Cardinality(TerminalsWritten(session.transport)) <= 1

\* the watchdog failed the job, its error event was written, and the close
\* event of the killed subprocess (a second call of reject) came afterwards
C1_Witness ==
  /\ Cardinality(TerminalsWritten(session.transport)) = 1
  /\ settlement.via = "timeout"
  /\ proc = "closed"

\* C2: once a terminal event has been written to the transport, no progress
\* event and no keep-alive comment is written (or attempted) after it, even
\* when subprocess output or a timer tick arrives later.
C2_NothingAfterTerminal ==
  \A i \in TerminalsWritten(session.transport) :
    \A j \in DOMAIN session.transport :
      j > i => session.transport[j].event \notin {"progress", "keep-alive"}

\* the first output of the subprocess arrived after the error event of the
\* watchdog was written on a connection that never broke: the notice that the
\* process is running was not written
C2_Witness ==
  /\ settlement.via = "timeout"
  /\ TerminalsWritten(session.transport) # {}
  /\ ~clientGone
  /\ processStarted
  /\ progressMessages # <<>>
  /\ \A i \in DOMAIN session.transport : session.transport[i].data # RunningNotice

\* the session has noticed that its transport is closed
Abandoned(s) == s.responseEnded \/ ~Writable(s.res)

\* C3: when the transport closed before the job settled, the settlement of
\* the job writes no terminal event and attempts no write on the transport.
C3_NoWriteAfterClose ==
  [][(Abandoned(session) /\ settlement.state = "pending"
        /\ settlement'.state # "pending")
       => session'.transport = session.transport]_vars

\* a step of the connection: the peer goes, req or res emits close, finish or
\* error
ConnectionStep ==
  \/ clientGone' # clientGone
  \/ reqClosed' # reqClosed
  \/ session'.res.closed # session.res.closed
  \/ session'.res.finished # session.res.finished
  \/ (session.res.errorPending /\ ~session'.res.errorPending)

\* C4: the subprocess is killed only by the watchdog; no step of the
\* connection (request close, response close, finish, error, disconnect)
\* touches the job, and the outcome of the job, once set, never changes.
C4_KilledOnlyByWatchdog ==
  [][/\ (killed' # killed => timeout /\ ~timeout' /\ killed')
     /\ (ConnectionStep => UNCHANGED jobVars)
     /\ (settlement.state # "pending" => settlement' = settlement)]_vars

\* the client left, the response closed, and the job ran on to its result
C4_Witness ==
  /\ clientGone
  /\ session.res.closed
  /\ session.responseEnded
  /\ settlement.state = "fulfilled"
  /\ ~killed

Missing(v) == v.t \in {"undefined", "null"} \/ (v.t = "string" /\ v.text = <<>>)

AnyMissing(body) ==
  Missing(body.ticker) \/ Missing(body.horizon) \/ Missing(body.risk_profile)

\* the reply is the 400 with status "error"
Is400(r) ==
  /\ r.status = 400
  /\ r.body.t = "object"
  /\ r.body.obj[K_status] = Str(<<"e","r","r","o","r">>)

\* C6: on both endpoints a request with a missing or empty ticker, horizon or
\* risk_profile is answered 400 with status "error", and runAnalysis is never
\* invoked.
C6_MissingFieldRejected ==
  AnyMissing(request.body) =>
    /\ launches = 0
    /\ proc = "none"
    /\ session.transport = <<>>
    /\ phase # "received" => phase = "rejected" /\ Is400(reply)

\* a streaming request whose ticker alone is missing has been answered
C6_Witness ==
  /\ request.endpoint = "stream"
  /\ Missing(request.body.ticker)
  /\ ~Missing(request.body.horizon) /\ ~Missing(request.body.risk_profile)
  /\ Validate([request.body EXCEPT !.ticker = Str(<<"a","a","p","l">>)]) = "ok"
  /\ phase = "rejected"
  /\ Is400(reply)

\* a value that is not one of the strings of the set, whatever its case
NotIn(v, valid) == ~(v.t = "string" /\ toLowerCase(v.text) \in valid)

\* C7: on both endpoints a request whose three fields are present and whose
\* horizon or risk_profile is not one of the valid values (non-strings
\* included) is answered 400, and runAnalysis is never invoked.
C7_InvalidEnumRejected ==
  (/\ ~AnyMissing(request.body)
   /\ Truthy(request.body.ticker) /\ Truthy(request.body.horizon)
   /\ Truthy(request.body.risk_profile)
   /\ (NotIn(request.body.horizon, validHorizons)
         \/ NotIn(request.body.risk_profile, validRiskProfiles)))
  => /\ launches = 0
     /\ phase # "received" => phase = "rejected" /\ Is400(reply)

(***************************************************************************)
(* Properties of the 'close' handler                                       *)
(***************************************************************************)

\* the subprocess closed with exit code 0 and the handler settled the job
ClosedClean == proc = "closed" /\ exitCode = Code(0) /\ ~killed /\ ~spawnFailed

\* both markers, the start marker wholly before the end marker
MarkersInOrder(out) ==
  /\ includes(out, JSON_OUTPUT_START)
  /\ includes(out, JSON_OUTPUT_END)
  /\ indexOf(out, JSON_OUTPUT_START) + Len(JSON_OUTPUT_START) <= indexOf(out, JSON_OUTPUT_END)

\* the text between the end of the start marker and the start of the end marker
Between(out) ==
  SubSeq(out, indexOf(out, JSON_OUTPUT_START) + Len(JSON_OUTPUT_START) + 1,
         indexOf(out, JSON_OUTPUT_END))

\* a text that is a JSON object, surrounding white space aside
WellFormedObject(text) ==
  JSONparse(trim(text)).ok /\ JSONparse(trim(text)).val.t = "object"

\* the result carries the properties of the object, the memo and the
\* transcript (which the handler sets itself) aside
CarriesObject(result, obj) ==
  \A k \in DOMAIN obj \ {K_memo, K_progressMessages} :
    HasProp(result, k) /\ result[k] = obj[k]

\* C8: when the subprocess exits with code 0 and the text between the two
\* markers is a well-formed JSON object, the job succeeds with exactly that
\* object and without parseError, whatever follows the start marker.
C8_SentinelParsed ==
  (ClosedClean /\ MarkersInOrder(stdout) /\ WellFormedObject(Between(stdout)))
  => /\ settlement.state = "fulfilled"
     /\ ~HasProp(settlement.value, K_parseError)
     /\ CarriesObject(settlement.value, JSONparse(trim(Between(stdout))).val.obj)

\* the output with the markers put around its bare object, each on a line of
\* its own
Wrapped(out) ==
  LET first == indexOf(out, <<"{">>) + 1
      last == Max(Occurrences(out, <<"}">>, 1))
  IN  SubSeq(out, 1, first - 1)
        \o JSON_OUTPUT_START \o <<"\n">> \o SubSeq(out, first, last) \o <<"\n">>
        \o JSON_OUTPUT_END \o <<"\n">>
        \o SubSeq(out, last + 1, Len(out))

\* no marker, and one object from the first { to the last }
BareObject(out) ==
  /\ ~includes(out, JSON_OUTPUT_START)
  /\ ~includes(out, JSON_OUTPUT_END)
  /\ includes(out, <<"{">>)
  /\ includes(out, <<"}">>)
  /\ WellFormedObject(SubSeq(out, indexOf(out, <<"{">>) + 1,
                             Max(Occurrences(out, <<"}">>, 1))))

\* C9: an output without markers and with one bare JSON object gives the
\* result the same object gives between the markers (fields, memo, transcript
\* attached, no parseError); the bare strategy is used only when the markers
\* are not both there, and the text heuristic only when there is no {...}
\* either.
C9_BareLikeSentinel ==
  ClosedClean =>
    /\ BareObject(stdout) =>
         /\ settlement.state = "fulfilled"
         /\ settlement.value
              = ResolveOutput(Wrapped(stdout), progressMessages, files).value
         /\ ~HasProp(settlement.value, K_parseError)
         /\ settlement.value[K_progressMessages] = Array(progressMessages)
    /\ settlement.via = "bare" =>
         ~(includes(stdout, JSON_OUTPUT_START) /\ includes(stdout, JSON_OUTPUT_END))
    /\ settlement.via = "text" =>
         /\ ~(includes(stdout, JSON_OUTPUT_START) /\ includes(stdout, JSON_OUTPUT_END))
         /\ ~(includes(stdout, <<"{">>) /\ includes(stdout, <<"}">>))

\* a bare object with a nested object was parsed, and the memo file the
\* output names was attached
C9_Witness ==
  /\ ClosedClean
  /\ BareObject(stdout)
  /\ settlement.state = "fulfilled"
  /\ HasProp(settlement.value, K_scenarios)
  /\ settlement.value[K_scenarios].t = "object"
  /\ settlement.value[K_recommendation] = Str(<<"H","O","L","D">>)
  /\ HasProp(settlement.value, K_memo)
  /\ settlement.value[K_memo] = Str(MemoText)

\* C10: when the subprocess exits with code 0 and the text between the
\* markers is malformed JSON, the job still succeeds: the result is the text
\* heuristic over the whole stdout, with the transcript attached and a
\* non-empty parseError.
C10_MalformedFallsBack ==
  (ClosedClean /\ MarkersInOrder(stdout) /\ ~JSONparse(trim(Between(stdout))).ok)
  => /\ settlement.state = "fulfilled"
     /\ HasProp(settlement.value, K_parseError)
     /\ settlement.value[K_parseError].t = "string"
     /\ settlement.value[K_parseError].text # <<>>
     /\ settlement.value[K_progressMessages] = Array(progressMessages)
     /\ \A k \in {K_recommendation, K_confidence_score, K_scenarios} :
          settlement.value[k] = parseTextOutput(stdout)[k]

\* the memo of a result; undefined when it has none
MemoOf(result) == IF HasProp(result, K_memo) THEN result[K_memo] ELSE Undefined

\* the memo the result had before the enrichment: that of the parsed object
\* after a structured parse, the empty string of the text heuristic otherwise
PriorMemo ==
  IF settlement.via = "sentinel" THEN MemoOf(JSONparse(SentinelText(stdout)).val.obj)
  ELSE IF settlement.via = "bare" THEN MemoOf(JSONparse(BraceMatch(stdout).all).val.obj)
  ELSE Str(<<>>)

\* C11: for exit code 0 the job succeeds on every extraction path; when
\* stdout announces a memo path and the file at the resolved path exists and
\* is readable, memo is the content of the file (whatever memo the payload
\* carried), and when the file is absent or unreadable the memo is left as it
\* was.
C11_MemoAttached ==
  ClosedClean =>
    /\ settlement.state = "fulfilled"
    /\ settlement.via \in {"sentinel", "bare", "text", "catch"}
    /\ LET memoPath == extractMemoPath(stdout)
       IN  IF /\ memoPath.found
              /\ memoPath.path \in DOMAIN files
              /\ files[memoPath.path].readable
           THEN MemoOf(settlement.value) = Str(files[memoPath.path].content)
           ELSE MemoOf(settlement.value) = PriorMemo

\* the payload between the markers carried a memo of its own, and the content
\* of the memo file replaced it
C11_Witness ==
  /\ ClosedClean
  /\ settlement.via = "sentinel"
  /\ MemoOf(JSONparse(SentinelText(stdout)).val.obj) = Str(<<"o","l","d">>)
  /\ MemoFile \in DOMAIN files
  /\ MemoOf(settlement.value) = Str(MemoText)

\* the subprocess closed with another code than 0, and its close settled the job
ClosedFailed == proc = "closed" /\ exitCode # Code(0) /\ ~killed /\ ~spawnFailed

\* the lines of a text that are not blank
NonBlankLines(text) ==
  SelectSeq(split(text, "\n"), LAMBDA line : line \notin Seq(WhiteSpace))

Traceback == <<"T","r","a","c","e","b","a","c","k">>

\* C12: a job whose subprocess closes with an exit code other than 0 fails,
\* whatever stdout contains; when the last non-empty line of stderr carries no
\* traceback marker, the message of the failure is exactly that line.
C12_ExitFailure ==
  ClosedFailed =>
    /\ settlement.state = "rejected"
    /\ reply.status = 500
    /\ LET lines == NonBlankLines(stderr)
       IN  (lines # <<>> /\ ~includes(lines[Len(lines)], Traceback))
             => settlement.error.message = lines[Len(lines)]

\* exit code 1 after a traceback whose last line is the error, with a
\* well-formed result between the markers in stdout
C12_Witness ==
  /\ ClosedFailed
  /\ MarkersInOrder(stdout) /\ WellFormedObject(Between(stdout))
  /\ includes(stderr, Traceback)
  /\ settlement.error.message = <<"V","a","l","u","e","E","r","r","o","r",":"," ","b","a","d"," ","t","i","c","k","e","r">>

(***************************************************************************)
(* Properties of the progress events                                       *)
(***************************************************************************)

\* the text of the complete lines of a stream: all of it once the subprocess
\* has closed (the final flush), up to its last newline before
CompleteLines(text) ==
  IF proc = "closed" THEN text
  ELSE IF ~includes(text, <<"\n">>) THEN <<>>
  ELSE SubSeq(text, 1, Max(Occurrences(text, <<"\n">>, 1)))

\* an event made from stderr output
FromStderr(event) ==
  /\ event.obj[K_step] = Str(<<"e","r","r","o","r">>)
  /\ MatchAt(event.obj[K_message].text, <<"E","r","r","o","r",":"," ">>, 1)

\* the events of the transcript made from stdout lines
StdoutEvents == SelectSeq(progressMessages, LAMBDA event : ~FromStderr(event))

\* C13: the events made from stdout are one per complete line of the
\* concatenated stdout, wherever the chunks were cut: a line cut by a chunk
\* boundary is held over and emitted once, whole.
C13_OneEventPerLine ==
  StdoutEvents = LineEvents(CompleteLines(stdout))

\* C14: the events made from the output of the subprocess, from stdout lines
\* and from stderr output alike, are in the transcript whether or not the
\* caller passed a progress sink.
C14_TranscriptWithoutSink ==
  /\ NonBlankLines(stdout) # <<>> => StdoutEvents # <<>>
  /\ trim(stderr) # <<>> =>
       \E i \in DOMAIN progressMessages : FromStderr(progressMessages[i])

\* C15: the memo path stdout announces is resolved against the working
\* directory of the subprocess, so the file the subprocess wrote under
\* outputs/ there is the file that is read and attached.
C15_MemoUnderWorkingDirectory ==
  (/\ ClosedClean
   /\ extractMemoPath(stdout).found
   /\ WrittenMemoFile \in DOMAIN files
   /\ files[WrittenMemoFile].readable)
  => /\ extractMemoPath(stdout).path = WrittenMemoFile
     /\ MemoOf(settlement.value) = Str(files[WrittenMemoFile].content)

\* a stdout line that mentions a failure
MentionsFailure(line) ==
  \E word \in { <<"e","r","r","o","r">>, <<"e","x","c","e","p","t","i","o","n">>,
                <<"f","a","i","l","e","d">> } :
    includes(toLowerCase(line), word)

\* the message the preference chain gives
PreferredMessage(code, out, err) ==
  LET errLines == NonBlankLines(err)
      outLines == SelectSeq(split(out, "\n"), MentionsFailure)
  IN  IF errLines # <<>>
      THEN (IF ~includes(errLines[Len(errLines)], Traceback)
            THEN errLines[Len(errLines)]
            ELSE JoinWith(errLines, <<";", " ">>))
      ELSE IF outLines # <<>> THEN outLines[Len(outLines)]
      ELSE <<"P","y","t","h","o","n"," ","p","r","o","c","e","s","s"," ","e","x","i","t","e","d"," ","w","i","t","h"," ","c","o","d","e"," ">>
             \o CodeToText(code)

\* C16: for an exit code other than 0 the message of the failure is the last
\* non-empty stderr line without a traceback marker; else the non-empty
\* stderr lines joined; else, whenever stderr has no non-empty line (a stderr
\* of white space included), the last stdout line that mentions "error",
\* "exception" or "failed"; else the generic message with the code.
C16_MessagePreference ==
  ClosedFailed =>
    /\ settlement.state = "rejected"
    /\ settlement.error.message = PreferredMessage(exitCode, stdout, stderr)

\* the bracketed token a line starts with, "system" when it starts with none
LeadingLabel(line) ==
  LET close == indexOf(line, <<"]">>)
  IN  IF MatchAt(line, <<"[">>, 1) /\ close >= 2
      THEN SubSeq(line, 2, close)
      ELSE <<"s","y","s","t","e","m">>

\* the message was made from a stderr chunk
CarriesStderr(message) ==
  \E chunk \in StderrChunks : includes(message, trim(chunk))

\* C17: the step of an event made from a stdout line is the bracketed token
\* the line starts with, and "system" when the line starts with none (a token
\* later in the line does not count); an event made from stderr has the step
\* "error" and a message that starts with "Error:".
C17_StepLabels ==
  \A i \in DOMAIN progressMessages :
    LET event == progressMessages[i].obj
    IN  IF CarriesStderr(event[K_message].text)
        THEN /\ event[K_step] = Str(<<"e","r","r","o","r">>)
             /\ MatchAt(event[K_message].text, <<"E","r","r","o","r",":">>, 1)
        ELSE event[K_step] = Str(LeadingLabel(event[K_message].text))

\* the structured parse of the sentinel path or of the bare path threw on
\* malformed JSON
StructuredParseThrew(out) ==
  IF includes(out, JSON_OUTPUT_START) /\ includes(out, JSON_OUTPUT_END)
  THEN ~JSONparse(SentinelText(out)).ok
  ELSE BraceMatch(out).found /\ ~JSONparse(BraceMatch(out).all).ok

\* C18: a result carries parseError if and only if the structured parse of
\* the sentinel path or of the bare path threw on malformed JSON; no other
\* failure in the handler (a well-formed payload that is no object, such as
\* null between the markers) sets it.
C18_ParseErrorOnlyOnMalformed ==
  ClosedClean =>
    /\ settlement.state = "fulfilled"
    /\ HasProp(settlement.value, K_parseError) <=> StructuredParseThrew(stdout)

(***************************************************************************)
(* Properties of the forwarding                                            *)
(***************************************************************************)

\* the session is Open: set up, not marked closed, its response writable
Open(s) == s.connectionAlive /\ ~s.responseEnded /\ Writable(s.res)

\* the progress events on the transport after the first one (which the
\* handler writes itself, not through the sink)
SinkEntries(transport) ==
  Tail(SelectSeq(transport, LAMBDA entry : entry.event = "progress"))

\* the notices the job itself passes to the sink
IsNotice(data) == data \in {StartedNotice, RunningNotice}

\* C19: while a streaming session is Open, every event passed to its sink has
\* been written to the transport as one progress event, once and in the order
\* of the source lines: the events made from the output are the transcript,
\* in its order, and the notices of the job are there as well.
C19_ForwardedInOrder ==
  (Streaming /\ Open(session)) =>
    LET entries == SinkEntries(session.transport)
        output == SelectSeq(entries, LAMBDA entry : ~IsNotice(entry.data))
    IN  /\ \A i \in DOMAIN entries : entries[i].fate = "sent"
        /\ entries # <<>> /\ entries[1].data = StartedNotice
        /\ Cardinality({i \in DOMAIN entries : entries[i].data = StartedNotice}) = 1
        /\ Cardinality({i \in DOMAIN entries : entries[i].data = RunningNotice})
             = (IF processStarted THEN 1 ELSE 0)
        /\ [i \in DOMAIN output |-> output[i].data] = progressMessages

\* an Open session has forwarded events of both streams: three events of
\* stdout and stderr output are on the transport
C19_Witness ==
  /\ Streaming
  /\ Open(session)
  /\ stderr # <<>>
  /\ stdout # <<>>
  /\ Len(progressMessages) >= 3
  /\ Len(SinkEntries(session.transport)) >= 5

\* the last write of the step threw
WriteThrew ==
  /\ Len(session'.transport) > Len(session.transport)
  /\ \E i \in (Len(session.transport) + 1)..Len(session'.transport) :
       session'.transport[i].fate = "threw"

\* C20: a close of the request while the response is still writable leaves
\* the session as it is (Open, its keep-alive interval set), and the terminal
\* event of the job is still delivered on it; the session is marked closed
\* only when the response is no longer writable (closed, destroyed or ended)
\* or when a write has failed.
C20_RequestCloseNotAuthoritative ==
  /\ [][/\ (reqClosed' /\ ~reqClosed /\ Writable(session.res)) => session' = session
        /\ (session'.responseEnded /\ ~session.responseEnded)
             => (~Writable(session'.res) \/ WriteThrew)]_vars
  /\ [](reqClosed /\ ~clientGone /\ settlement.state # "pending"
          => \E i \in TerminalsWritten(session.transport) :
               session.transport[i].fate = "sent")

\* the request closed on a connection that never broke, output was forwarded
\* and the result of the job was delivered
C20_Witness ==
  /\ reqClosed
  /\ ~clientGone
  /\ settlement.state = "fulfilled"
  /\ progressMessages # <<>>
  /\ \E i \in TerminalsWritten(session.transport) :
       session.transport[i].event = "complete" /\ session.transport[i].fate = "sent"

(***************************************************************************)
(* Properties of the settlement                                            *)
(***************************************************************************)

\* the session is Open and its transport is writable: the peer is there
OpenTransport == Streaming /\ Open(session) /\ ~clientGone

\* the step settles the job
Settles == settlement.state = "pending" /\ settlement'.state # "pending"

\* C21: every launched job settles in the end, given that its subprocess
\* closes, fails to spawn, or the watchdog fires; and when a job settles while
\* its streaming session is Open, the terminal event (complete for a result,
\* error for a failure) is written in that step and the server ends the
\* response.
C21_SettlesAndDelivers ==
  /\ (phase = "launched") ~> (settlement.state # "pending")
  /\ [][(Settles /\ OpenTransport) =>
          /\ Len(session'.transport) = Len(session.transport) + 1
          /\ LET last == session'.transport[Len(session'.transport)]
             IN  /\ last.fate = "sent"
                 /\ last.event = (IF settlement'.state = "fulfilled"
                                  THEN "complete" ELSE "error")
                 /\ last.data = (IF settlement'.state = "fulfilled"
                                 THEN SuccessBody(settlement'.value)
                                 ELSE ErrorBody(settlement'.error.message))
          /\ session'.res.writableEnded]_vars

\* the subprocess of an Open session never closed; the watchdog settled the
\* job, and its error event was written and the response ended
C21_Witness ==
  /\ Streaming
  /\ ~clientGone
  /\ proc = "running"
  /\ settlement.via = "timeout"
  /\ session.res.writableEnded
  /\ session.transport[Len(session.transport)].event = "error"
  /\ session.transport[Len(session.transport)].fate = "sent"

\* C22: a write on the transport that fails marks the session closed (its
\* keep-alive interval cleared, no more forwarding) and nothing else: the
\* subprocess is not killed, and a job that succeeded is never answered with an
\* error event.
C22_WriteFailureLocal ==
  /\ [][WriteThrew =>
          /\ session'.responseEnded
          /\ ~session'.connectionAlive
          /\ ~session'.keepAliveInterval
          /\ (killed' # killed => timeout /\ ~timeout')]_vars
  /\ [](settlement.state = "fulfilled" =>
          \A i \in DOMAIN session.transport : session.transport[i].event # "error")

\* C23: a successful result carries as progressMessages the whole sequence of
\* the events the job passed to its sink, the notices of the job among them:
\* when a job resolves on a session that was Open all along, the list is the
\* sequence of the events the sink wrote.
C23_TranscriptIsWhatTheSinkGot ==
  [][(Settles /\ settlement'.state = "fulfilled" /\ Streaming /\ Open(session)) =>
       LET entries == SinkEntries(session.transport)
       IN  settlement'.value[K_progressMessages]
             = Array([i \in DOMAIN entries |-> entries[i].data])]_vars

(***************************************************************************)
(* Properties of the session flags and of the watchdog                     *)
(***************************************************************************)

\* the progress events written on the transport in this step
ProgressWritten ==
  \E i \in (Len(session.transport) + 1)..Len(session'.transport) :
    session'.transport[i].event = "progress"

\* C25: in every state of a streaming session connectionAlive is true exactly
\* when responseEnded is false, so sendProgress never finds both false (its
\* re-enabling branch is never taken); and a session that is no longer Open
\* does not become Open again and no progress event is written on it.
C25_FlagsComplementary ==
  /\ [](Streaming => (session.connectionAlive <=> ~session.responseEnded))
  /\ [][(Streaming /\ ~Open(session)) =>
          /\ ~Open(session')
          /\ ~ProgressWritten]_vars

\* output arrived after the session was marked closed: the transcript has
\* events of which none is on the transport
C25_Witness ==
  /\ Streaming
  /\ ~session.connectionAlive
  /\ session.responseEnded
  /\ Len(progressMessages) >= 2
  /\ \A i \in DOMAIN SinkEntries(session.transport) :
       IsNotice(SinkEntries(session.transport)[i].data)

\* C26: the watchdog is disarmed when the job ends without it: after the
\* close of the subprocess the timer is cancelled, kill is not called on a
\* closed process and a job settled by the close is not a timeout; and after
\* a spawn failure has settled the job the timer is not armed and does not
\* fire.
C26_WatchdogDisarmed ==
  /\ [](proc = "closed" => ~timeout)
  /\ []((proc = "closed" /\ ~killed) => settlement.via # "timeout")
  /\ [](spawnFailed => ~timeout)
  /\ [][(killed' /\ ~killed) => (proc # "closed" /\ ~spawnFailed)]_vars

(***************************************************************************)
(* Properties of two requests in flight                                    *)
(***************************************************************************)

\* C24: with two streaming sessions in flight, a callback of one request
\* (a progress, keep-alive or terminal write, the close or a failed write of
\* its transport, its watchdog, the settlement of its job) leaves the state
\* of the other request as it is: its transport gets no event, and its
\* flags, timers, buffers and outcome do not change.
C24_RequestsIndependent ==
  [][IF request' = request
     THEN others' = others
     ELSE others' = Own /\ Own' = others]_vars

\* one session was closed by its peer and its job ended by the watchdog,
\* while the other is Open, has forwarded output and its job is running
C24_Witness ==
  /\ others # NoOther
  /\ Streaming /\ Open(session) /\ proc = "running"
  /\ Len(SinkEntries(session.transport)) >= 3
  /\ others.session.res.closed
  /\ others.session.responseEnded
  /\ \E i \in DOMAIN others.session.transport :
       others.session.transport[i].fate = "threw"
  /\ others.settlement.via = "timeout"
====
